---- MODULE Spec2Model ----
(***************************************************************************)
(* Model of the Zentoria AI orchestrator core: the intent router           *)
(* (src/core/router.py), the generation client's retry policy              *)
(* and the embedding client's retry policy (src/core/llm.py), the RAG      *)
(* pipeline's index, delete, search and query paths (src/core/rag.py) and  *)
(* the question answering of the search agent (src/agents/search.py).      *)
(*                                                                         *)
(* Conventions.                                                            *)
(*  - A Python dict is a sequence of <<key, value>> pairs in insertion     *)
(*    order (dicts iterate in insertion order).                            *)
(*  - None is the string "None".                                           *)
(*  - A confidence is kept in tenths (0.3 is 3, 1.0 is 10), as exact       *)
(*    decimal arithmetic.                                                  *)
(*  - A text is a sequence of words of Vocabulary; a generation reply is   *)
(*    a sequence of one-character strings.                                 *)
(***************************************************************************)
EXTENDS Integers, Sequences, FiniteSets, TLC

VARIABLES
    text,           \* route(): the input text
    force_agent,    \* route(): the force_agent argument, or "None"
    rpc,            \* route(): position of the call
    scores,         \* route(): the dict built by _pattern_match
    attempt,        \* LLMClient.generate: attempts made so far
    gen_calls,      \* number of requests sent to the generation backend
    gen_result,     \* how the awaited llm.generate call ended
    llm_outcome,    \* what _llm_classify gave back to route()
    result,         \* what route() gave back to its caller
    resolve_args,   \* direct calls of _resolve_conflicts: the dicts passed
    resolve_out,    \* direct calls of _resolve_conflicts: the values returned
    store,          \* the vector collection: its points, as a set of runs
    next_id,        \* source of fresh point identifiers (uuid4)
    ops,            \* number of pipeline calls made so far
    last,           \* the pipeline call that completed last
    requests,       \* the backend requests the last call issued, in order
    retrieved,      \* _answer_question: the hits found and the documents made of them
    query_ret,      \* what RAGPipeline.query gave back to _answer_question
    answer,         \* what SearchAgent._answer_question gave back
    instances,      \* the service objects that exist, by owner and service
    clients,        \* the network client of each service object
    phase,          \* the application lifespan: new, running, down
    redis,          \* the stored conversation of each session
    appended,       \* sequential calls: messages appended to each session
    tasks,          \* concurrent add_message calls: position and locals
    turn,           \* the last chat turn
    turns,          \* number of chat turns so far
    qdrant,         \* RAGPipeline._qdrant: "None" or the client
    collection,     \* whether the collection exists on the server
    reqs            \* concurrent pipeline requests: position and locals

vars == <<text, force_agent, rpc, scores, attempt, gen_calls, gen_result,
          llm_outcome, result, resolve_args, resolve_out,
          store, next_id, ops, last, requests, retrieved, query_ret, answer,
          instances, clients, phase,
          redis, appended, tasks, turn, turns,
          qdrant, collection, reqs>>

routerVars == <<text, force_agent, rpc, scores, attempt,
                gen_calls, gen_result, llm_outcome, result>>
resolverVars == <<resolve_args, resolve_out>>
ragVars == <<store, next_id, ops, last>>
queryVars == <<retrieved, query_ret, answer>>
coreVars == <<routerVars, resolverVars, ragVars, requests, queryVars>>
lifeVars == <<instances, clients, phase>>
historyVars == <<redis, appended, tasks, turn, turns>>
setupVars == <<qdrant, collection, reqs>>
serviceVars == <<lifeVars, historyVars, setupVars>>

None == "None"

(***************************************************************************)
(* Bounds of the model.                                                    *)
(***************************************************************************)
MaxWords == 4        \* longest input text, in words
MaxDictLen == 3      \* largest dict passed directly to _resolve_conflicts
MaxDictScore == 2    \* largest hit count in such a dict
MaxOps == 3          \* number of pipeline calls in one run
MaxRuns == 2         \* number of upserts whose points the store holds at once
MaxHits == 2         \* number of hits of one qdrant.search answer
MaxTasks == 2        \* number of concurrent add_message calls
MaxTurns == 2        \* number of chat turns in one run
MaxMessages == 52    \* number of messages appended in one sequential run
MaxEdits == 2        \* messages a caller appends before save_conversation
MaxRequests == 3     \* number of concurrent first requests on one pipeline

(***************************************************************************)
(* core/models.py: AgentType                                               *)
(***************************************************************************)
AgentType == {"file", "mail", "key", "workflow", "security", "chat", "code", "search"}

(***************************************************************************)
(* core/router.py: INTENT_PATTERNS.  PatternOrder is the iteration order   *)
(* of the dict; NumPatterns the length of each category's pattern list.    *)
(***************************************************************************)
PatternOrder == <<"file", "mail", "key", "workflow", "security", "code", "search", "chat">>

NumPatterns(agent) ==
    CASE agent = "code" -> 4
      [] agent = "chat" -> 2
      [] OTHER -> 3

(***************************************************************************)
(* The words an input text is built from, each with the patterns of        *)
(* INTENT_PATTERNS that match one occurrence of it (<<category, index of   *)
(* the pattern in the category's list>>).  "a@mail.com" is matched by      *)
(* the mail keyword pattern (\bmail\b) and by the address pattern.         *)
(***************************************************************************)
Vocabulary == <<"file", "upload", "email", "a@mail.com", "token", "workflow",
                "audit", "code", "python", "search", "hello", "xyz">>

WordMatches(w) ==
    CASE w = "file"       -> {<<"file", 1>>}
      [] w = "upload"     -> {<<"file", 2>>}
      [] w = "email"      -> {<<"mail", 1>>}
      [] w = "a@mail.com" -> {<<"mail", 1>>, <<"mail", 3>>}
      [] w = "token"      -> {<<"key", 1>>}
      [] w = "workflow"   -> {<<"workflow", 1>>}
      [] w = "audit"      -> {<<"security", 3>>}
      [] w = "code"       -> {<<"code", 1>>}
      [] w = "python"     -> {<<"code", 2>>}
      [] w = "search"     -> {<<"search", 1>>}
      [] w = "hello"      -> {<<"chat", 1>>}
      [] OTHER            -> {}

WordIndex(w) == CHOOSE i \in 1..Len(Vocabulary) : Vocabulary[i] = w

\* pattern.findall(text): the matches of one pattern in the text
findall(pattern, t) == {i \in 1..Len(t) : pattern \in WordMatches(t[i])}

(***************************************************************************)
(* The input texts: every bag of at most n words, each written once, with  *)
(* its words in vocabulary order (the patterns count occurrences, so the   *)
(* order of the words does not change any count).                          *)
(***************************************************************************)
RECURSIVE TextsOfLen(_)
TextsOfLen(n) ==
    IF n = 0 THEN {<<>>}
    ELSE {Append(t, Vocabulary[i]) :
              <<t, i>> \in {<<u, j>> \in TextsOfLen(n - 1) \X (1..Len(Vocabulary)) :
                               u = <<>> \/ WordIndex(u[Len(u)]) <= j}}

Texts == UNION {TextsOfLen(n) : n \in 0..MaxWords}

(***************************************************************************)
(* Python dict helpers.                                                    *)
(***************************************************************************)
Keys(d) == {d[i][1] : i \in 1..Len(d)}
Get(d, k) == d[CHOOSE i \in 1..Len(d) : d[i][1] = k][2]
Items(d) == {d[i] : i \in 1..Len(d)}

(***************************************************************************)
(* core/router.py: CommandRouter._pattern_match                            *)
(***************************************************************************)
RECURSIVE SumMatchesAny(_, _, _)
SumMatchesAny(agent, n, t) ==
    IF n = 0 THEN 0
    ELSE SumMatchesAny(agent, n - 1, t)
            + (IF findall(<<agent, n>>, t) # {} THEN 1 ELSE 0)

RECURSIVE SumMatches(_, _, _)
SumMatches(agent, n, t) ==
    IF n = 0 THEN 0
    ELSE SumMatches(agent, n - 1, t) + Cardinality(findall(<<agent, n>>, t))

RECURSIVE PatternMatchFrom(_, _)
PatternMatchFrom(k, t) ==
    IF k = 0 THEN <<>>
    ELSE LET agent_type == PatternOrder[k]
             score == SumMatches(agent_type, NumPatterns(agent_type), t)
             before == PatternMatchFrom(k - 1, t)
         IN IF score > 0 THEN Append(before, <<agent_type, score>>) ELSE before

_pattern_match(t) == PatternMatchFrom(Len(PatternOrder), t)

(***************************************************************************)
(* core/router.py: AGENT_PRIORITIES                                        *)
(***************************************************************************)
AGENT_PRIORITIES(agent) ==
    CASE agent = "code"     -> 10
      [] agent = "file"     -> 9
      [] agent = "mail"     -> 8
      [] agent = "key"      -> 8
      [] agent = "workflow" -> 7
      [] agent = "security" -> 7
      [] agent = "search"   -> 5
      [] agent = "chat"     -> 1

(***************************************************************************)
(* core/router.py: CommandRouter._resolve_conflicts.  max() over a dict    *)
(* returns the first key, in iteration order, whose key value is maximal.  *)
(***************************************************************************)
WeightedScoreUnweighted(item) == item[2]

WeightedScore(item) == item[2] * AGENT_PRIORITIES(item[1])

\* the first position of a maximal value
FirstMaxIndex(v) ==
    CHOOSE i \in 1..Len(v) :
        /\ \A j \in 1..Len(v) : v[j] <= v[i]
        /\ \A j \in 1..(i - 1) : v[j] < v[i]

_resolve_conflicts(d) ==
    IF Len(d) = 0 THEN "chat"
    ELSE LET weighted_scores == [i \in 1..Len(d) |-> WeightedScore(d[i])]
         IN d[FirstMaxIndex(weighted_scores)][1]

(***************************************************************************)
(* sorted(scores.items(), key=lambda x: x[1], reverse=True): a stable sort *)
(* (items with equal keys keep their relative order).                      *)
(***************************************************************************)
RawScore(item) == item[2]

RemoveAt(s, i) == SubSeq(s, 1, i - 1) \o SubSeq(s, i + 1, Len(s))

RECURSIVE sorted_desc(_)
sorted_desc(d) ==
    IF Len(d) = 0 THEN <<>>
    ELSE LET i == FirstMaxIndex([k \in 1..Len(d) |-> RawScore(d[k])])
         IN <<d[i]>> \o sorted_desc(RemoveAt(d, i))

(***************************************************************************)
(* core/llm.py: LLMClient.generate is wrapped in                           *)
(* @retry(stop=stop_after_attempt(3), ..., reraise=True).                  *)
(***************************************************************************)
MaxAttempts == 3

(***************************************************************************)
(* The replies of the generation backend used here, as character           *)
(* sequences, and the str methods _llm_classify applies to them.           *)
(***************************************************************************)
Replies == {
    <<"c", "h", "a", "t">>,
    <<"f", "i", "l", "e">>,
    <<"e", "m", "a", "i", "l">>,
    <<" ", "C", "o", "d", "e", " ">>,
    <<":", " ", "k", "e", "y">>,
    <<"A", "g", "e", "n", "t", ":", " ", "m", "a", "i", "l">>,
    <<"F", "i", "l", "e", ".">>,
    <<"s", "e", "a", "r", "c", "h", "!">>,
    <<" ", "c", "o", "d", "e", "!", " ">>,
    <<"n", "o", "n", "e">>,
    <<>> }

Whitespace == {" ", "\n", "\t"}

RECURSIVE lstrip(_)
lstrip(s) ==
    IF Len(s) > 0 /\ s[1] \in Whitespace THEN lstrip(Tail(s)) ELSE s

RECURSIVE rstrip(_)
rstrip(s) ==
    IF Len(s) > 0 /\ s[Len(s)] \in Whitespace
    THEN rstrip(SubSeq(s, 1, Len(s) - 1)) ELSE s

strip(s) == rstrip(lstrip(s))

LowerChar(c) ==
    CASE c = "A" -> "a"
      [] c = "C" -> "c"
      [] c = "F" -> "f"
      [] OTHER -> c

lower(s) == [i \in 1..Len(s) |-> LowerChar(s[i])]

\* s.replace(c, ""): every occurrence of the character c removed
RECURSIVE remove_char(_, _)
remove_char(s, c) ==
    IF Len(s) = 0 THEN <<>>
    ELSE IF s[1] = c THEN remove_char(Tail(s), c)
         ELSE <<s[1]>> \o remove_char(Tail(s), c)

\* response.strip().lower().replace(":", "").replace(" ", "")
agent_name_unpunctuated(response) ==
    remove_char(remove_char(remove_char(remove_char(
        lower(strip(response)), ":"), " "), "."), "!")

agent_name(response) == remove_char(remove_char(lower(strip(response)), ":"), " ")

\* the literal agent_map of _llm_classify
agent_map == {
    << <<"f", "i", "l", "e">>, "file" >>,
    << <<"m", "a", "i", "l">>, "mail" >>,
    << <<"e", "m", "a", "i", "l">>, "mail" >>,
    << <<"k", "e", "y">>, "key" >>,
    << <<"w", "o", "r", "k", "f", "l", "o", "w">>, "workflow" >>,
    << <<"s", "e", "c", "u", "r", "i", "t", "y">>, "security" >>,
    << <<"c", "o", "d", "e">>, "code" >>,
    << <<"s", "e", "a", "r", "c", "h">>, "search" >>,
    << <<"c", "h", "a", "t">>, "chat" >> }

\* agent_map.get(name)
agent_map_get(name) ==
    IF \E e \in agent_map : e[1] = name
    THEN (CHOOSE e \in agent_map : e[1] = name)[2]
    ELSE None

(***************************************************************************)
(* core/router.py: CommandRouter._llm_classify, as a function of how the   *)
(* awaited llm.generate ended: gen.ok with gen.response, or an exception   *)
(* after the last attempt.  The value is what the method gives its caller: *)
(* a returned value, or a raised exception.                                *)
(***************************************************************************)
LlmClassifyNoExcept(gen) ==
    IF gen.ok
    THEN [raised |-> FALSE, value |-> agent_map_get(agent_name(gen.response))]
    ELSE [raised |-> TRUE, value |-> None]

LlmClassifyIndexing(gen) ==
    IF gen.ok
    THEN LET v == agent_map_get(agent_name(gen.response))
         IN [raised |-> v = None, value |-> v]
    ELSE [raised |-> FALSE, value |-> None]

_llm_classify(gen) ==
    IF gen.ok
    THEN [raised |-> FALSE, value |-> agent_map_get(agent_name(gen.response))]
    ELSE [raised |-> FALSE, value |-> None]

(***************************************************************************)
(* core/router.py: CommandRouter.route, its four branches.                 *)
(***************************************************************************)
Min(a, b) == IF a <= b THEN a ELSE b

Decision(agent, method, confidence) ==
    [outcome |-> "returned", agent |-> agent, method |-> method,
     confidence |-> confidence]

\* lines 214-215: if force_agent
IsForced(f) == f # None

RouteForcedAsPattern(f) == Decision(f, "pattern", 10)

RouteForced(f) == Decision(f, "forced", 10)

\* lines 226-236: no pattern matched
RouteFallbackSwapped(llm_result) ==
    IF llm_result # None
    THEN Decision(llm_result, "llm", 5)
    ELSE Decision("chat", "default", 8)

RouteFallback(llm_result) ==
    IF llm_result # None
    THEN Decision(llm_result, "llm", 8)
    ELSE Decision("chat", "default", 5)

\* lines 238-242: single match
RouteSingleUncapped(d) == Decision(d[1][1], "pattern", d[1][2] * 3)

RouteSingle(d) == Decision(d[1][1], "pattern", Min(d[1][2] * 3, 10))

\* lines 244-260: multiple matches
RouteMultipleAtLeastTwice(d) ==
    LET sorted_scores == sorted_desc(d)
        top_score == sorted_scores[1][2]
        second_score == IF Len(sorted_scores) > 1 THEN sorted_scores[2][2] ELSE 0
    IN IF top_score >= second_score * 2
       THEN Decision(sorted_scores[1][1], "pattern", 9)
       ELSE Decision(_resolve_conflicts(d), "priority_weighted", 7)

RouteMultiple(d) ==
    LET sorted_scores == sorted_desc(d)
        top_score == sorted_scores[1][2]
        second_score == IF Len(sorted_scores) > 1 THEN sorted_scores[2][2] ELSE 0
    IN IF top_score > second_score * 2
       THEN Decision(sorted_scores[1][1], "pattern", 9)
       ELSE Decision(_resolve_conflicts(d), "priority_weighted", 7)

NoResult == [outcome |-> "pending", agent |-> None, method |-> None, confidence |-> 0]
Raised == [outcome |-> "raised", agent |-> None, method |-> None, confidence |-> 0]
NotCalled == [raised |-> FALSE, value |-> "NotCalled"]
Pending == [ok |-> FALSE, response |-> "Pending"]
Failed == [ok |-> FALSE, response |-> "Failed"]

(***************************************************************************)
(* route() up to its first await: it returns at once when an agent is      *)
(* forced or a pattern matched, and otherwise enters _llm_classify, which  *)
(* awaits llm.generate.                                                    *)
(***************************************************************************)
RouteClassifiesWeakHits ==
    /\ rpc = "start"
    /\ IF IsForced(force_agent)
       THEN /\ result' = RouteForced(force_agent)
            /\ rpc' = "done"
            /\ UNCHANGED scores
       ELSE /\ scores' = _pattern_match(text)
            /\ IF Len(scores') = 0 \/ (Len(scores') = 1 /\ scores'[1][2] = 1)
               THEN /\ rpc' = "generate"
                    /\ UNCHANGED result
               ELSE /\ rpc' = "done"
                    /\ result' = IF Len(scores') = 1
                                 THEN RouteSingle(scores')
                                 ELSE RouteMultiple(scores')
    /\ UNCHANGED <<text, force_agent, attempt, gen_calls, gen_result, llm_outcome>>
    /\ UNCHANGED <<resolverVars, ragVars, requests, queryVars, serviceVars>>

Route ==
    /\ rpc = "start"
    /\ IF IsForced(force_agent)
       THEN /\ result' = RouteForced(force_agent)
            /\ rpc' = "done"
            /\ UNCHANGED scores
       ELSE /\ scores' = _pattern_match(text)
            /\ IF Len(scores') = 0
               THEN /\ rpc' = "generate"
                    /\ UNCHANGED result
               ELSE /\ rpc' = "done"
                    /\ result' = IF Len(scores') = 1
                                 THEN RouteSingle(scores')
                                 ELSE RouteMultiple(scores')
    /\ UNCHANGED <<text, force_agent, attempt, gen_calls, gen_result, llm_outcome>>
    /\ UNCHANGED <<resolverVars, ragVars, requests, queryVars, serviceVars>>

\* what route() does with the outcome of _llm_classify
AfterClassify(gen) ==
    /\ gen_result' = gen
    /\ llm_outcome' = _llm_classify(gen)
    /\ result' = IF llm_outcome'.raised THEN Raised
                  ELSE RouteFallback(llm_outcome'.value)
    /\ rpc' = "done"

\* an attempt of llm.generate succeeds with some reply
GenerateSucceeds ==
    /\ rpc = "generate"
    /\ \E response \in Replies :
           AfterClassify([ok |-> TRUE, response |-> response])
    /\ attempt' = attempt + 1
    /\ gen_calls' = gen_calls + 1
    /\ UNCHANGED <<text, force_agent, scores>>
    /\ UNCHANGED <<resolverVars, ragVars, requests, queryVars, serviceVars>>

\* an attempt of llm.generate fails: retried until stop_after_attempt,
\* then the exception is re-raised into _llm_classify
GenerateFailsRetriesOn ==
    /\ rpc = "generate"
    /\ attempt' = attempt + 1
    /\ gen_calls' = gen_calls + 1
    /\ UNCHANGED <<rpc, gen_result, llm_outcome, result>>
    /\ UNCHANGED <<text, force_agent, scores>>
    /\ UNCHANGED <<resolverVars, ragVars, requests, queryVars, serviceVars>>

GenerateFails ==
    /\ rpc = "generate"
    /\ attempt < MaxAttempts
    /\ attempt' = attempt + 1
    /\ gen_calls' = gen_calls + 1
    /\ IF attempt' = MaxAttempts
       THEN AfterClassify(Failed)
       ELSE UNCHANGED <<rpc, gen_result, llm_outcome, result>>
    /\ UNCHANGED <<text, force_agent, scores>>
    /\ UNCHANGED <<resolverVars, ragVars, requests, queryVars, serviceVars>>

RouterInit ==
    /\ text \in Texts
    /\ force_agent \in AgentType \cup {None}
    /\ rpc = "start"
    /\ scores = <<>>
    /\ attempt = 0
    /\ gen_calls = 0
    /\ gen_result = Pending
    /\ llm_outcome = NotCalled
    /\ result = NoResult

(***************************************************************************)
(* Direct calls of _resolve_conflicts (as the tests make them): a dict,    *)
(* then a dict with the same items inserted in another order.              *)
(***************************************************************************)
RECURSIVE DictsOver(_, _)
DictsOver(k, n) ==
    \* the dicts of n items whose keys are among the first k of PatternOrder,
    \* inserted in that order
    IF n = 0 THEN {<<>>}
    ELSE IF k = 0 THEN {}
    ELSE DictsOver(k - 1, n)
         \cup {Append(d, <<PatternOrder[k], v>>) :
                   <<d, v>> \in DictsOver(k - 1, n - 1) \X (1..MaxDictScore)}

Dicts == UNION {DictsOver(Len(PatternOrder), n) : n \in 0..MaxDictLen}

Reorderings(d) ==
    {[i \in 1..Len(d) |-> d[f[i]]] :
        f \in {g \in [1..Len(d) -> 1..Len(d)] :
                  \A i, j \in 1..Len(d) : g[i] = g[j] => i = j}}

ResolverInit ==
    /\ resolve_args \in UNION {{<<d, e>> : e \in Reorderings(d)} : d \in Dicts}
    /\ resolve_out = <<>>

ResolveConflicts ==
    /\ Len(resolve_out) < Len(resolve_args)
    /\ resolve_out' = Append(resolve_out,
                             _resolve_conflicts(resolve_args[Len(resolve_out) + 1]))
    /\ UNCHANGED resolve_args
    /\ UNCHANGED <<routerVars, ragVars, requests, queryVars, serviceVars>>

(***************************************************************************)
(* core/rag.py: the vector collection.                                     *)
(*                                                                         *)
(* The points one upsert wrote have consecutive identifiers and differ     *)
(* only in identifier and chunk index, so the collection is kept as a set  *)
(* of runs: [lo, hi] are the identifiers of the run's points still in the  *)
(* collection, first is the identifier of the call's chunk 0, total is     *)
(* len(chunks) of the call, doc its doc_id argument and metadata its       *)
(* metadata argument.  uuid4 is a fresh identifier: the next value of a    *)
(* counter.  The chunk text and the embedding vector are left out.         *)
(***************************************************************************)
DocIds == {"d1", "d2"}

\* rag.py line 339: limit=1000
ScrollLimit == 1000

\* len(chunks) for the contents indexed
ChunkCounts == {0, 2, ScrollLimit, ScrollLimit + 1}

\* the metadata arguments used: None, a tag, a dict with a doc_id key and a
\* dict with a total_chunks key
NoMetadata == <<>>
Metadatas ==
    {NoMetadata, [source |-> "upload"], [total_chunks |-> 0]}
        \cup {[doc_id |-> d] : d \in DocIds}

\* lines 124-130: the payload literal; **(metadata or {}) comes last, so its
\* keys replace the ones written before it
Payload(run, id) ==
    run.metadata @@ [doc_id |-> run.doc, chunk_index |-> id - run.first,
                     total_chunks |-> run.total]

RunSize(run) == run.hi - run.lo + 1

\* the points of a run, and of the collection
PointsOfRun(run) == {[id |-> i, payload |-> Payload(run, i)] : i \in run.lo..run.hi}
Points(st) == UNION {PointsOfRun(run) : run \in st}

\* FieldCondition(key="doc_id", match=MatchValue(value=doc_id))
Matching(st, doc_id) == {run \in st : Payload(run, run.lo).doc_id = doc_id}

RECURSIVE SumSizes(_)
SumSizes(runs) ==
    IF runs = {} THEN 0
    ELSE LET r == CHOOSE x \in runs : TRUE
         IN RunSize(r) + SumSizes(runs \ {r})

CountOf(st, doc_id) == SumSizes(Matching(st, doc_id))

(***************************************************************************)
(* qdrant.scroll(filter, limit): one page, the matching points in          *)
(* ascending identifier order, at most limit of them.  The value is the    *)
(* set of identifier intervals <<lo, hi>> of the page; the next-page       *)
(* offset, which delete_document discards, is not modelled.                *)
(***************************************************************************)
RECURSIVE ScrollRuns(_, _)
ScrollRuns(runs, limit) ==
    IF runs = {} \/ limit = 0 THEN {}
    ELSE LET r == CHOOSE x \in runs : \A y \in runs : x.lo <= y.lo
         IN IF RunSize(r) <= limit
            THEN {<<r.lo, r.hi>>} \cup ScrollRuns(runs \ {r}, limit - RunSize(r))
            ELSE {<<r.lo, r.lo + limit - 1>>}

Scroll(st, doc_id, limit) == ScrollRuns(Matching(st, doc_id), limit)

RECURSIVE CountIds(_)
CountIds(page) ==
    IF page = {} THEN 0
    ELSE LET iv == CHOOSE x \in page : TRUE
         IN (iv[2] - iv[1] + 1) + CountIds(page \ {iv})

\* qdrant.delete(points_selector=point_ids): the collection without them
DeletePoints(st, page) ==
    LET Cut(run) == {iv \in page : iv[1] = run.lo}
    IN {run \in st : Cut(run) = {}}
       \cup {[run EXCEPT !.lo = (CHOOSE iv \in Cut(run) : TRUE)[2] + 1] :
                run \in {x \in st : \E iv \in Cut(x) : iv[2] < x.hi}}

(***************************************************************************)
(* core/rag.py: RAGPipeline.delete_document reads one scroll page and      *)
(* deletes the identifiers of that page.                                   *)
(***************************************************************************)
DeletePage(st, doc_id) == Scroll(st, doc_id, ScrollLimit)

NoCall == [op |-> "none", doc |-> None, ret |-> 0, raised |-> FALSE,
           had |-> 0, chunks |-> 0, metadata |-> NoMetadata, first |-> 0]

Call(op, doc, ret, raised, had, chunks, metadata, first) ==
    [op |-> op, doc |-> doc, ret |-> ret, raised |-> raised, had |-> had,
     chunks |-> chunks, metadata |-> metadata, first |-> first]

(***************************************************************************)
(* core/llm.py: @retry(stop=stop_after_attempt(3), wait=wait_exponential,  *)
(* reraise=True) around LLMClient.generate and LLMClient.embed.  A call    *)
(* whose first `fails` attempts fail makes these attempts, in order; when  *)
(* no attempt of the MaxAttempts succeeds the last exception is re-raised. *)
(* A request is <<name of the client method, whether it succeeded>>.       *)
(***************************************************************************)
Once(name, ok) == << <<name, ok>> >>

RetryLogSingleAttempt(name, fails) == Once(name, fails = 0)

RetryLog(name, fails) ==
    [i \in 1..Min(fails + 1, MaxAttempts) |-> <<name, i > fails>>]

RetryRaises(fails) == fails >= MaxAttempts

\* the numbers of failing attempts a retried call can meet
Failures == 0..MaxAttempts

(***************************************************************************)
(* core/rag.py: RAGPipeline.delete_document                                *)
(***************************************************************************)
\* lines 334-351: the scroll, and the delete when the page is not empty
DeleteRequests(point_ids) ==
    Once("scroll", TRUE) \o (IF point_ids # {} THEN Once("delete", TRUE) ELSE <<>>)

DeleteDocument ==
    /\ ops < MaxOps
    /\ \E doc_id \in DocIds :
        LET point_ids == DeletePage(store, doc_id)
        IN /\ store' = IF point_ids # {} THEN DeletePoints(store, point_ids) ELSE store
           /\ last' = Call("delete", doc_id, CountIds(point_ids), FALSE,
                           CountOf(store, doc_id), 0, NoMetadata, 0)
           /\ requests' = DeleteRequests(point_ids)
    /\ ops' = ops + 1
    /\ UNCHANGED next_id
    /\ UNCHANGED <<routerVars, resolverVars, queryVars, serviceVars>>

\* qdrant.scroll or qdrant.delete raises: the exception leaves delete_document
DeleteDocumentRaises ==
    /\ ops < MaxOps
    /\ \E doc_id \in DocIds, failing \in {"scroll", "delete"} :
        \* a failing delete needs a non-empty page; a failing scroll does not
        /\ failing = "delete" => DeletePage(store, doc_id) # {}
        /\ last' = Call("delete", doc_id, 0, TRUE, CountOf(store, doc_id), 0, NoMetadata, 0)
        /\ requests' = IF failing = "scroll" THEN Once("scroll", FALSE)
                       ELSE Once("scroll", TRUE) \o Once("delete", FALSE)
    /\ ops' = ops + 1
    /\ UNCHANGED <<store, next_id>>
    /\ UNCHANGED <<routerVars, resolverVars, queryVars, serviceVars>>

(***************************************************************************)
(* core/rag.py: RAGPipeline.index_document                                 *)
(***************************************************************************)
\* lines 112-137: nothing is requested for an empty chunk list; otherwise
\* llm.embed(chunks), then qdrant.upsert
IndexRequestsEmbedFirst(n, fails) ==
    RetryLog("embed", fails) \o (IF n = 0 THEN <<>> ELSE Once("upsert", TRUE))

IndexRequests(n, fails) ==
    IF n = 0 THEN <<>>
    ELSE RetryLog("embed", fails) \o Once("upsert", TRUE)

IndexDocument ==
    /\ ops < MaxOps
    /\ \E doc_id \in DocIds, n \in ChunkCounts, metadata \in Metadatas,
          fails \in Failures :
        /\ ~RetryRaises(fails)
        /\ n > 0 => Cardinality(store) < MaxRuns
        /\ IF n = 0
           THEN UNCHANGED <<store, next_id>>
           ELSE /\ store' = store \cup
                      {[lo |-> next_id, hi |-> next_id + n - 1, first |-> next_id,
                        total |-> n, doc |-> doc_id, metadata |-> metadata]}
                /\ next_id' = next_id + n
        /\ last' = Call("index", doc_id, n, FALSE, CountOf(store, doc_id), n,
                        metadata, next_id)
        /\ requests' = IndexRequests(n, fails)
    /\ ops' = ops + 1
    /\ UNCHANGED <<routerVars, resolverVars, queryVars, serviceVars>>

\* llm.embed or qdrant.upsert raises: nothing was written
IndexDocumentRaises ==
    /\ ops < MaxOps
    /\ \E doc_id \in DocIds, n \in ChunkCounts \ {0}, metadata \in Metadatas,
          fails \in Failures :
        /\ last' = Call("index", doc_id, 0, TRUE, CountOf(store, doc_id), n,
                        metadata, next_id)
        /\ requests' = IF RetryRaises(fails) THEN RetryLog("embed", fails)
                       ELSE RetryLog("embed", fails) \o Once("upsert", FALSE)
    /\ ops' = ops + 1
    /\ UNCHANGED <<store, next_id>>
    /\ UNCHANGED <<routerVars, resolverVars, queryVars, serviceVars>>

(***************************************************************************)
(* core/rag.py: RAGPipeline.search.  A hit of qdrant.search is             *)
(* [id, has_payload, payload, score], has_payload FALSE standing for a     *)
(* payload of None; the hits come in the store's ranking order.            *)
(***************************************************************************)
\* config.py line 66: rag_top_k
rag_top_k == 5

NoPayload == <<>>

\* lines 204-210: one Document per hit
Document(hit) ==
    LET payload == IF hit.has_payload THEN hit.payload ELSE NoPayload
    IN [id |-> hit.id,
        content |-> IF "content" \in DOMAIN payload THEN payload.content ELSE <<>>,
        metadata |-> [k \in DOMAIN payload \ {"content"} |-> payload[k]],
        score |-> hit.score]

\* lines 202-211: the loop over the results
search_documents_reversed(results) ==
    [i \in 1..Len(results) |-> Document(results[Len(results) + 1 - i])]

search_documents(results) == [i \in 1..Len(results) |-> Document(results[i])]

\* lines 168-215, as a function of how the awaited calls end: the attempts
\* of llm.embed that fail, whether qdrant.search succeeds, and its hits
search(fails, search_ok, results) ==
    IF RetryRaises(fails)
    THEN [raised |-> TRUE, documents |-> <<>>, requests |-> RetryLog("embed", fails)]
    ELSE IF ~search_ok
    THEN [raised |-> TRUE, documents |-> <<>>,
          requests |-> RetryLog("embed", fails) \o Once("search", FALSE)]
    ELSE [raised |-> FALSE, documents |-> search_documents(results),
          requests |-> RetryLog("embed", fails) \o Once("search", TRUE)]

\* line 126: the chunk's text, one text standing for all
ChunkText == <<"c">>

\* the answers qdrant.search can give on the collection: up to limit points
\* that pass the doc_id filter, in any ranking.  Of each run its first
\* point stands for the others.
StoreHits(st, doc_id) ==
    {[id |-> run.lo, has_payload |-> TRUE,
      payload |-> Payload(run, run.lo) @@ [content |-> ChunkText], score |-> 1] :
        run \in IF doc_id = None THEN st ELSE Matching(st, doc_id)}

Rankings(hits, limit) ==
    {<<>>} \cup {<<h>> : h \in hits}
           \cup (IF limit >= 2
                 THEN {<<g, h>> : <<g, h>> \in {x \in hits \X hits : x[1] # x[2]}}
                 ELSE {})

Search ==
    /\ ops < MaxOps
    /\ \E doc_id \in DocIds \cup {None}, fails \in Failures, search_ok \in BOOLEAN :
        \E results \in Rankings(StoreHits(store, doc_id), rag_top_k) :
            LET out == search(fails, search_ok, results)
            IN /\ last' = Call("search", doc_id, Len(out.documents), out.raised,
                               0, 0, NoMetadata, 0)
               /\ requests' = out.requests
    /\ ops' = ops + 1
    /\ UNCHANGED <<store, next_id>>
    /\ UNCHANGED <<routerVars, resolverVars, queryVars, serviceVars>>

RagInit ==
    /\ store = {}
    /\ next_id = 1
    /\ ops = 0
    /\ last = NoCall
    /\ requests = <<>>

(***************************************************************************)
(* core/rag.py: RAGPipeline.format_context, build_rag_prompt and query;    *)
(* agents/search.py: SearchAgent._answer_question.  A text is a sequence   *)
(* of characters.                                                          *)
(***************************************************************************)
\* rag.py lines 311-312: the length a citation's content is cut at
PreviewLength == 200

Ellipsis == <<".", ".", ".">>

Text(n) == [i \in 1..n |-> "a"]

\* the lengths of the chunk texts of the hits
ContentLengths == {0, 1, PreviewLength, PreviewLength + 1}

\* the payloads of the points a search can hit: points written by
\* index_document, and a point without a doc_id key
HitPayloads ==
    {[doc_id |-> "d1", content |-> Text(n), chunk_index |-> 0, total_chunks |-> 1] :
        n \in ContentLengths}
        \cup {[content |-> Text(1)]}

HitPool ==
    {[id |-> id, has_payload |-> TRUE, payload |-> payload] :
        id \in 1..MaxHits, payload \in HitPayloads}
        \cup {[id |-> id, has_payload |-> FALSE, payload |-> NoPayload] :
                id \in 1..MaxHits}

\* the score of the hit of rank i, in tenths: descending, and at or above
\* the threshold (config.py line 67, 0.7)
RankScore(i) == 10 - i

\* the answers of qdrant.search: distinct points, by descending score
QueryResults ==
    UNION {{[i \in 1..k |-> [id |-> r[i].id, has_payload |-> r[i].has_payload,
                             payload |-> r[i].payload, score |-> RankScore(i)]] :
               r \in {x \in [1..k -> HitPool] :
                         \A i, j \in 1..k : i < j => x[i].id # x[j].id}} :
           k \in 0..MaxHits}

\* lines 231 and 310: doc.metadata.get("doc_id", "unknown")
source(doc) ==
    IF "doc_id" \in DOMAIN doc.metadata THEN doc.metadata.doc_id ELSE "unknown"

\* lines 226-236: one part per document, numbered from 1
format_context(documents) ==
    [i \in 1..Len(documents) |-> <<i, source(documents[i]), documents[i].content>>]

\* lines 254-269: the context part is left out when the context is empty
build_rag_prompt(context) ==
    [system |-> TRUE, augmented |-> context # <<>>, context |-> context]

\* search.py lines 253-256: the prompt of the fallback call
plain_prompt == [system |-> TRUE, augmented |-> FALSE, context |-> <<>>]

\* lines 311-313
previewUncut(content) == content

preview(content) ==
    IF Len(content) > PreviewLength
    THEN SubSeq(content, 1, PreviewLength) \o Ellipsis
    ELSE content

\* lines 308-315
Citation(doc) ==
    [id |-> doc.id, source |-> source(doc), content |-> preview(doc.content),
     score |-> doc.score]

\* lines 304-316, include_citations left at its default True
citations_of(documents) == [i \in 1..Len(documents) |-> Citation(documents[i])]

\* llm.py lines 43-92: LLMClient.generate as a function of how many of its
\* attempts fail
generate(fails, response) ==
    [raised |-> RetryRaises(fails), response |-> response,
     requests |-> RetryLog("generate", fails)]

\* the reply of the generation backend
Response == <<"o", "k">>

NoAnswer == [outcome |-> "pending"]

\* rag.py lines 290-318, from what search gave and how generate ends
query(found, gen_fails) ==
    IF found.raised
    THEN [outcome |-> "raised", requests |-> found.requests]
    ELSE LET prompt == build_rag_prompt(format_context(found.documents))
             gen == generate(gen_fails, Response)
         IN IF gen.raised
            THEN [outcome |-> "raised", requests |-> found.requests \o gen.requests]
            ELSE [outcome |-> "returned", prompt |-> prompt,
                  response |-> gen.response,
                  citations |-> citations_of(found.documents),
                  requests |-> found.requests \o gen.requests]

\* search.py lines 237-241: the text appended for the citations
sources_text(citations) ==
    [i \in 1..Len(citations) |-> <<i, citations[i].source>>]

\* search.py line 258
ContextNote == "*Note: Answered without document context.*"

\* search.py lines 229-247, the try body.  The message is the response,
\* the sources text appended to it and the note appended to it ("" for
\* none).
answer_with_context(q) ==
    [outcome |-> "returned",
     message |-> [response |-> q.response, sources |-> sources_text(q.citations),
                  note |-> ""],
     prompt |-> q.prompt,
     citations |-> q.citations,
     count |-> Len(q.citations),
     requests |-> q.requests]

\* search.py lines 249-261, the except body
answer_reraise(q, fallback_fails) ==
    [outcome |-> "raised", requests |-> q.requests]

answer_without_context(q, fallback_fails) ==
    LET gen == generate(fallback_fails, Response)
    IN IF gen.raised
       THEN [outcome |-> "raised", requests |-> q.requests \o gen.requests]
       ELSE [outcome |-> "returned",
             message |-> [response |-> gen.response, sources |-> <<>>,
                          note |-> ContextNote],
             prompt |-> plain_prompt,
             citations |-> <<>>,
             count |-> 0,
             requests |-> q.requests \o gen.requests]

answer_question(q, fallback_fails) ==
    IF q.outcome = "returned"
    THEN answer_with_context(q)
    ELSE answer_without_context(q, fallback_fails)

NotRetrieved == [outcome |-> "pending"]

QueryInit ==
    /\ retrieved = NotRetrieved
    /\ query_ret = NoAnswer
    /\ answer = NoAnswer

\* one call of SearchAgent._answer_question
AnswerQuestion ==
    /\ answer = NoAnswer
    /\ \E embed_fails \in Failures, search_ok \in BOOLEAN, results \in QueryResults,
          gen_fails \in Failures, fallback_fails \in Failures :
        LET found == search(embed_fails, search_ok, results)
            q == query(found, gen_fails)
            a == answer_question(q, fallback_fails)
        IN /\ retrieved' = [outcome |-> IF found.raised THEN "raised" ELSE "returned",
                            results |-> IF found.raised THEN <<>> ELSE results,
                            documents |-> found.documents]
           /\ query_ret' = [k \in DOMAIN q \ {"requests"} |-> q[k]]
           /\ answer' = [k \in DOMAIN a \ {"requests"} |-> a[k]]
           /\ requests' = a.requests
    /\ UNCHANGED <<routerVars, resolverVars, store, next_id, ops, last, serviceVars>>

(***************************************************************************)
(* container.py, main.py and the module-level accessors of core/llm.py,    *)
(* core/context.py, core/rag.py and core/router.py.  A service object is   *)
(* <<owner, service>>: owned by the container (a field of Container) or by *)
(* its module (the module's global).  A network client is                  *)
(* <<owner, service, client>>: "none" until its first use constructs it,   *)
(* then "open", and "closed" once closed.                                  *)
(***************************************************************************)
Owners == {"container", "module"}

Services == {"llm", "context", "rag", "router"}

\* LLMClient._client; ContextManager._redis and _qdrant; RAGPipeline._qdrant
ClientsOf(service) ==
    CASE service = "llm" -> {"http"}
      [] service = "context" -> {"redis", "qdrant"}
      [] service = "rag" -> {"qdrant"}
      [] OTHER -> {}

ClientKeys ==
    UNION {{<<owner, service, c>> : c \in ClientsOf(service)} :
              <<owner, service>> \in Owners \X Services}

LifeInit ==
    /\ instances = {}
    /\ clients = [k \in ClientKeys |-> "none"]
    /\ phase = "new"

\* x.close() of a client: an open client becomes closed
Closed(cl, keys) ==
    [k \in ClientKeys |-> IF k \in keys /\ cl[k] = "open" THEN "closed" ELSE cl[k]]

\* the first use of a client constructs it; LLMClient._get_client also
\* replaces a closed client
Opened(cl, key) ==
    [cl EXCEPT ![key] = IF @ = "none" \/ (key[3] = "http" /\ @ = "closed")
                        THEN "open" ELSE @]

\* main.py lines 46-56, container.py lines 96-130: the four getters, then
\* the health checks, which construct the container's http, redis and
\* context qdrant clients
Initialize ==
    /\ phase = "new"
    /\ instances' = instances \cup ({"container"} \X Services)
    /\ clients' = Opened(Opened(Opened(clients,
                      <<"container", "llm", "http">>),
                      <<"container", "context", "redis">>),
                      <<"container", "context", "qdrant">>)
    /\ phase' = "running"
    /\ UNCHANGED <<coreVars, historyVars, setupVars>>

\* the module-level get_llm_client, get_context_manager, get_rag_pipeline
\* and get_command_router: the module's global is created on the first
\* call.  The WebSocket endpoints call the last three; a pipeline, a router
\* or an agent that was given no llm client calls the first from _get_llm
\* (rag.py lines 42-46, router.py lines 84-88, base.py lines 36-40), and
\* the agents are made with no argument (routes.py line 76).
ModuleGet ==
    /\ phase = "running"
    /\ \E service \in Services :
        /\ <<"module", service>> \notin instances
        /\ instances' = instances \cup {<<"module", service>>}
    /\ UNCHANGED <<clients, phase>>
    /\ UNCHANGED <<coreVars, historyVars, setupVars>>

\* LLMClient._get_client, ContextManager._get_redis and _get_qdrant,
\* RAGPipeline._get_qdrant on an existing service object
GetClient ==
    /\ phase = "running"
    /\ \E key \in ClientKeys :
        /\ <<key[1], key[2]>> \in instances
        /\ clients' = Opened(clients, key)
    /\ UNCHANGED <<instances, phase>>
    /\ UNCHANGED <<coreVars, historyVars, setupVars>>

\* container.py lines 132-160: only the container's own fields are closed
Shutdown ==
    /\ phase = "running"
    /\ clients' = Closed(clients, {k \in ClientKeys : k[1] = "container"})
    /\ instances' = {i \in instances : i[1] # "container"}
    /\ phase' = "down"
    /\ UNCHANGED <<coreVars, historyVars, setupVars>>

(***************************************************************************)
(* core/context.py: the conversation of a session is one Redis value, read *)
(* by get_conversation and replaced by save_conversation.  redis maps a    *)
(* session to [present, messages]; a message is [role, content], and the   *)
(* content is a number that tells the messages apart.                      *)
(***************************************************************************)
Sessions == {"s1", "s2"}

ChatRoles == {"user", "assistant"}

redis_max_history == 50

Absent == [present |-> FALSE, messages |-> <<>>]

\* lines 159-177: the stored conversation, or a new one with no message
get_conversation(r, session_id) ==
    IF r[session_id].present THEN r[session_id].messages ELSE <<>>

TrimmedToOldest(messages) ==
    IF Len(messages) > redis_max_history
    THEN SubSeq(messages, 1, redis_max_history)
    ELSE messages

\* lines 189-192: messages[-redis_max_history:]
Trimmed(messages) ==
    IF Len(messages) > redis_max_history
    THEN SubSeq(messages, Len(messages) - redis_max_history + 1, Len(messages))
    ELSE messages

\* lines 179-206: trim, then setex
save_conversation(r, session_id, messages) ==
    [r EXCEPT ![session_id] = [present |-> TRUE, messages |-> Trimmed(messages)]]

\* lines 208-231, run without interruption
add_message(r, session_id, message) ==
    save_conversation(r, session_id,
                      Append(get_conversation(r, session_id), message))

\* the k-th message appended to a session in a run of sequential calls
Msg(k) == [role |-> IF k % 2 = 1 THEN "user" ELSE "assistant", content |-> k]

Total(f) == f["s1"] + f["s2"]

Tasks == 1..MaxTasks

Idle == [pc |-> "idle", session |-> "s1", message |-> Msg(0), conversation |-> <<>>]

NoTurn ==
    [path |-> None, session |-> None, agent_type |-> None, handler |-> None,
     named |-> None, outcome |-> None]

HistoryInit ==
    /\ redis = [s \in Sessions |-> Absent]
    /\ appended = [s \in Sessions |-> 0]
    /\ tasks = [t \in Tasks |-> Idle]
    /\ turn = NoTurn
    /\ turns = 0

\* one add_message call after another (lines 208-231); appended counts the
\* messages the callers appended to each session
AddMessage ==
    /\ Total(appended) < MaxMessages
    /\ \E session_id \in Sessions :
        /\ redis' = add_message(redis, session_id, Msg(appended[session_id] + 1))
        /\ appended' = [appended EXCEPT ![session_id] = @ + 1]
    /\ UNCHANGED <<tasks, turn, turns>>
    /\ UNCHANGED <<coreVars, lifeVars, setupVars>>

\* a direct save_conversation call (lines 179-206) by a caller that took
\* the conversation from get_conversation and appended n messages to it
SaveConversation ==
    /\ \E session_id \in Sessions, n \in 0..MaxEdits :
        /\ Total(appended) + n <= MaxMessages
        /\ LET k == appended[session_id]
               added == [i \in 1..n |-> Msg(k + i)]
           IN /\ redis' = save_conversation(redis, session_id,
                              get_conversation(redis, session_id) \o added)
              /\ appended' = [appended EXCEPT ![session_id] = k + n]
    /\ UNCHANGED <<tasks, turn, turns>>
    /\ UNCHANGED <<coreVars, lifeVars, setupVars>>

\* add_message run by concurrent tasks: the first part runs up to the
\* answer of r.get (lines 226, 168-177) ...
AddMessageGet(t) ==
    /\ tasks[t].pc = "idle"
    /\ \E session_id \in Sessions, role \in ChatRoles :
        tasks' = [tasks EXCEPT ![t] =
                     [pc |-> "got", session |-> session_id,
                      message |-> [role |-> role, content |-> t],
                      conversation |-> get_conversation(redis, session_id)]]
    /\ UNCHANGED <<redis, appended, turn, turns>>
    /\ UNCHANGED <<coreVars, lifeVars, setupVars>>

\* ... and the second part appends, trims and writes (lines 227-229,
\* 185-200)
AddMessageSave(t) ==
    /\ tasks[t].pc = "got"
    /\ redis' = save_conversation(redis, tasks[t].session,
                    Append(tasks[t].conversation, tasks[t].message))
    /\ tasks' = [tasks EXCEPT ![t].pc = "done", ![t].conversation = <<>>]
    /\ UNCHANGED <<appended, turn, turns>>
    /\ UNCHANGED <<coreVars, lifeVars, setupVars>>

(***************************************************************************)
(* api/routes.py and api/websocket.py: one chat turn.                      *)
(***************************************************************************)
Paths == {"chat", "chat_stream", "websocket_chat"}

\* routes.py lines 59-76: AGENTS holds a class for each of the eight
\* categories, and the class of a category has that agent_type
get_agent(agent_type) == agent_type

\* websocket.py lines 54-60 and 121: AGENT_MAP.get(agent_type, ChatAgent)
AGENT_MAP_get(agent_type) ==
    IF agent_type \in {"chat", "code", "file", "mail", "search"}
    THEN agent_type
    ELSE "chat"

FailurePoints == {"none", "route", "handler", "save_user", "save_assistant"}

\* routes.py chat (lines 102-178) and chat_stream (lines 181-262),
\* websocket.py websocket_chat (lines 63-200).  request_agent is the agent
\* the request names; routed is what route() returns when it names none;
\* failure is the step of the turn that raises.
ChatTurn ==
    /\ turns < MaxTurns
    /\ \E path \in Paths, session_id \in Sessions,
          request_agent \in AgentType \cup {None, "unknown"},
          routed \in AgentType, failure \in FailurePoints :
        /\ request_agent = "unknown" => path = "websocket_chat"
        /\ failure = "route" => request_agent = None
        /\ request_agent # None => routed = "chat"
        /\ LET agent_type ==
                   IF request_agent = None THEN routed
                   ELSE IF request_agent \in AgentType THEN request_agent
                   ELSE "chat"
               handler == IF path = "websocket_chat"
                          THEN AGENT_MAP_get(agent_type)
                          ELSE get_agent(agent_type)
               k == turns + 1
               saved_user ==
                   IF failure \in {"none", "save_assistant"}
                   THEN add_message(redis, session_id,
                                    [role |-> "user", content |-> k])
                   ELSE redis
               saved_both ==
                   IF failure = "none"
                   THEN add_message(saved_user, session_id,
                                    [role |-> "assistant", content |-> k])
                   ELSE saved_user
           IN /\ redis' = saved_both
              /\ turn' = IF failure = "route"
                         THEN [NoTurn EXCEPT !.path = path, !.session = session_id,
                                             !.outcome = "route"]
                         ELSE [path |-> path, session |-> session_id,
                               agent_type |-> agent_type, handler |-> handler,
                               named |-> IF failure = "none" THEN agent_type
                                         ELSE None,
                               outcome |-> failure]
              /\ turns' = k
    /\ UNCHANGED <<appended, tasks>>
    /\ UNCHANGED <<coreVars, lifeVars, setupVars>>

(***************************************************************************)
(* core/rag.py: the first requests on one pipeline, interleaved at their   *)
(* awaits.  A request is [pc, kind, listed, ensured]: kind is the store     *)
(* operation it is going to issue, listed says that the collection_names   *)
(* it was answered hold the collection, ensured says that its own          *)
(* _ensure_collection call returned.                                       *)
(***************************************************************************)
Requests == 1..MaxRequests

Operations == {"upsert", "search", "scroll"}

NotStarted ==
    [pc |-> "idle", kind |-> "upsert", listed |-> FALSE, ensured |-> FALSE]

SetupInit ==
    /\ qdrant = None
    /\ collection \in BOOLEAN
    /\ reqs = [r \in Requests |-> NotStarted]

\* _get_qdrant up to its first await (lines 48-61): a request that finds
\* no client stores a new one and starts _ensure_collection; a request
\* that finds a client returns it
GetQdrant(r) ==
    /\ reqs[r].pc = "idle"
    /\ \E kind \in Operations :
        IF qdrant = None
        THEN /\ qdrant' = "client"
             /\ reqs' = [reqs EXCEPT ![r] = [@ EXCEPT !.pc = "checking", !.kind = kind]]
        ELSE /\ qdrant' = qdrant
             /\ reqs' = [reqs EXCEPT ![r] = [@ EXCEPT !.pc = "ready", !.kind = kind]]
    /\ UNCHANGED collection
    /\ UNCHANGED <<coreVars, lifeVars, historyVars>>

\* _ensure_collection, the answer of get_collections (lines 68-71): the
\* call raises, or the collection is listed, or it has to be created
GetCollections(r) ==
    /\ reqs[r].pc = "checking"
    /\ \E ok \in BOOLEAN :
        reqs' = [reqs EXCEPT ![r] =
                    IF ~ok THEN [@ EXCEPT !.pc = "raised"]
                    ELSE IF collection
                    THEN [@ EXCEPT !.pc = "ready", !.listed = TRUE, !.ensured = TRUE]
                    ELSE [@ EXCEPT !.pc = "creating"]]
    /\ UNCHANGED <<qdrant, collection>>
    /\ UNCHANGED <<coreVars, lifeVars, historyVars>>

\* _ensure_collection, the answer of create_collection (lines 72-82)
CreateCollection(r) ==
    /\ reqs[r].pc = "creating"
    /\ \E ok \in BOOLEAN :
        IF ok
        THEN /\ collection' = TRUE
             /\ reqs' = [reqs EXCEPT ![r] = [@ EXCEPT !.pc = "ready", !.ensured = TRUE]]
        ELSE /\ collection' = collection
             /\ reqs' = [reqs EXCEPT ![r] = [@ EXCEPT !.pc = "raised"]]
    /\ UNCHANGED qdrant
    /\ UNCHANGED <<coreVars, lifeVars, historyVars>>

\* the request issues its qdrant.upsert, search or scroll (lines 134, 193,
\* 334)
Operate(r) ==
    /\ reqs[r].pc = "ready"
    /\ reqs' = [reqs EXCEPT ![r].pc = "operating"]
    /\ UNCHANGED <<qdrant, collection>>
    /\ UNCHANGED <<coreVars, lifeVars, historyVars>>

ServiceInit == LifeInit /\ HistoryInit /\ SetupInit /\ collection = FALSE

(***************************************************************************)
(* Specifications: one route() call on any input; two direct calls of the  *)
(* conflict resolver; a sequence of pipeline calls; one question answered. *)
(***************************************************************************)
Init ==
    /\ RouterInit
    /\ resolve_args = <<>> /\ resolve_out = <<>>
    /\ RagInit
    /\ QueryInit
    /\ ServiceInit

Next == Route \/ GenerateSucceeds \/ GenerateFails

Spec == Init /\ [][Next]_vars

ResolverStart ==
    /\ ResolverInit
    /\ text = <<>> /\ force_agent = None /\ rpc = "done" /\ scores = <<>>
    /\ attempt = 0 /\ gen_calls = 0 /\ gen_result = Pending
    /\ llm_outcome = NotCalled /\ result = NoResult
    /\ RagInit
    /\ QueryInit
    /\ ServiceInit

ResolverNext == ResolveConflicts

ResolverSpec == ResolverStart /\ [][ResolverNext]_vars

RagStart ==
    /\ RagInit
    /\ text = <<>> /\ force_agent = None /\ rpc = "done" /\ scores = <<>>
    /\ attempt = 0 /\ gen_calls = 0 /\ gen_result = Pending
    /\ llm_outcome = NotCalled /\ result = NoResult
    /\ resolve_args = <<>> /\ resolve_out = <<>>
    /\ QueryInit
    /\ ServiceInit

RagNext ==
    \/ IndexDocument \/ IndexDocumentRaises
    \/ DeleteDocument \/ DeleteDocumentRaises
    \/ Search

RagSpec == RagStart /\ [][RagNext]_vars

\* one question answered over any search answer and any failures
QueryNext == AnswerQuestion

QuerySpec == RagStart /\ [][QueryNext]_vars

\* the application's lifespan: start, accessors and first uses, shutdown
LifecycleNext ==
    \/ Initialize \/ ModuleGet \/ GetClient \/ Shutdown

LifecycleSpec == RagStart /\ [][LifecycleNext]_vars

\* chat turns, one after another
ChatNext == ChatTurn

ChatSpec == RagStart /\ [][ChatNext]_vars

\* sequential add_message and save_conversation calls
HistoryNext == AddMessage \/ SaveConversation

HistorySpec == RagStart /\ [][HistoryNext]_vars

\* add_message calls of concurrent tasks, interleaved at their awaits
ConcurrentNext ==
    \/ \E t \in Tasks : AddMessageGet(t)
    \/ \E t \in Tasks : AddMessageSave(t)

ConcurrentSpec == RagStart /\ [][ConcurrentNext]_vars

\* the first requests on a new pipeline; the server has the collection or
\* has it not
SetupStart ==
    /\ RagInit
    /\ text = <<>> /\ force_agent = None /\ rpc = "done" /\ scores = <<>>
    /\ attempt = 0 /\ gen_calls = 0 /\ gen_result = Pending
    /\ llm_outcome = NotCalled /\ result = NoResult
    /\ resolve_args = <<>> /\ resolve_out = <<>>
    /\ QueryInit
    /\ LifeInit /\ HistoryInit /\ SetupInit

SetupNext ==
    \/ \E r \in Requests : GetQdrant(r)
    \/ \E r \in Requests : GetCollections(r)
    \/ \E r \in Requests : CreateCollection(r)
    \/ \E r \in Requests : Operate(r)

SetupSpec == SetupStart /\ [][SetupNext]_vars

(***************************************************************************)
(* Properties.  The hit counts of a text are restated here from the words  *)
(* and the patterns, without _pattern_match.                               *)
(***************************************************************************)
Hits(t) == UNION {{<<i, p>> : p \in WordMatches(t[i])} : i \in 1..Len(t)}

TotalHits(agent, t) == Cardinality({x \in Hits(t) : x[2][1] = agent})

HitCategories(t) == {agent \in AgentType : TotalHits(agent, t) >= 1}

Methods == {"forced", "pattern", "llm", "default", "priority_weighted"}

KnownNames == {e[1] : e \in agent_map}

Unforced == rpc = "done" /\ force_agent = None

\* C1: a route() call without a forced category on a text with no pattern
\* hit returns (c, llm, 0.8) when the fallback classifier returned the
\* category c, and (chat, default, 0.5) when the classifier returned no
\* category or the generation call failed.
FallbackDecision ==
    (Unforced /\ HitCategories(text) = {}) =>
        /\ llm_outcome # NotCalled
        /\ (~llm_outcome.raised /\ llm_outcome.value \in AgentType) =>
               result = Decision(llm_outcome.value, "llm", 8)
        /\ (~gen_result.ok \/ llm_outcome.value = None) =>
               result = Decision("chat", "default", 5)

FallbackDecisionWitness ==
    /\ Unforced /\ HitCategories(text) = {}
    /\ gen_result.ok /\ agent_name(gen_result.response) \notin KnownNames
    /\ result = Decision("chat", "default", 5)

TopHits(t) ==
    CHOOSE h \in 1..(2 * Len(t)) :
        /\ \E a \in HitCategories(t) : TotalHits(a, t) = h
        /\ \A a \in HitCategories(t) : TotalHits(a, t) <= h

SecondHits(t) ==
    LET top == CHOOSE a \in HitCategories(t) : TotalHits(a, t) = TopHits(t)
    IN CHOOSE h \in 1..(2 * Len(t)) :
        /\ \E a \in HitCategories(t) \ {top} : TotalHits(a, t) = h
        /\ \A a \in HitCategories(t) \ {top} : TotalHits(a, t) <= h

ClearWinnerRule ==
    (Unforced /\ Cardinality(HitCategories(text)) >= 2) =>
        IF TopHits(text) > 2 * SecondHits(text)
        THEN /\ result.method = "pattern" /\ result.confidence = 9
             /\ result.outcome = "returned"
             /\ TotalHits(result.agent, text) = TopHits(text)
        ELSE /\ result = Decision(_resolve_conflicts(scores), "priority_weighted", 7)
             /\ \A a \in HitCategories(text) :
                    TotalHits(a, text) * AGENT_PRIORITIES(a)
                        <= TotalHits(result.agent, text) * AGENT_PRIORITIES(result.agent)

ClearWinnerRuleWitness ==
    /\ Unforced /\ Cardinality(HitCategories(text)) >= 2
    /\ TopHits(text) = 2 * SecondHits(text)
    /\ result.method = "priority_weighted" /\ result.confidence = 7

\* C4: a route() call with a forced category returns that category with
\* method forced and confidence 1.0, whatever the text and its hits.
ForcedDecision ==
    (rpc = "done" /\ force_agent # None) =>
        /\ result = Decision(force_agent, "forced", 10)
        /\ gen_calls = 0

ForcedDecisionWitness ==
    /\ rpc = "done" /\ force_agent = "chat"
    /\ TotalHits("code", text) >= 3
    /\ result.agent = "chat" /\ result.method = "forced"

\* C5: for a non-empty dict the conflict resolver returns a category of the
\* dict whose hit count times priority weight is maximal; the weights are
\* ordered code > file > mail = key > workflow = security > search > chat;
\* of two categories with equal hit counts and different weights it
\* returns the one with the larger weight.
WeightedMaximum ==
    /\ AGENT_PRIORITIES("code") > AGENT_PRIORITIES("file")
    /\ AGENT_PRIORITIES("file") > AGENT_PRIORITIES("mail")
    /\ AGENT_PRIORITIES("mail") = AGENT_PRIORITIES("key")
    /\ AGENT_PRIORITIES("key") > AGENT_PRIORITIES("workflow")
    /\ AGENT_PRIORITIES("workflow") = AGENT_PRIORITIES("security")
    /\ AGENT_PRIORITIES("security") > AGENT_PRIORITIES("search")
    /\ AGENT_PRIORITIES("search") > AGENT_PRIORITIES("chat")
    /\ \A k \in 1..Len(resolve_out) :
         LET d == resolve_args[k]
             r == resolve_out[k]
         IN Len(d) > 0 =>
              /\ r \in Keys(d)
              /\ \A a \in Keys(d) :
                     Get(d, a) * AGENT_PRIORITIES(a) <= Get(d, r) * AGENT_PRIORITIES(r)
              /\ \A a, b \in Keys(d) :
                     (Keys(d) = {a, b} /\ Get(d, a) = Get(d, b)
                        /\ AGENT_PRIORITIES(a) > AGENT_PRIORITIES(b)) => r = a

WeightedMaximumWitness ==
    /\ Len(resolve_out) = 2
    /\ resolve_args[2] = << <<"chat", 2>>, <<"code", 2>> >>
    /\ resolve_out[2] = "code"

\* C6: the conflict resolver's result depends on the items of the dict
\* alone: two dicts with the same items in a different insertion order
\* resolve to the same category.
OrderIndependent ==
    (Len(resolve_out) = 2 /\ Items(resolve_args[1]) = Items(resolve_args[2])) =>
        resolve_out[1] = resolve_out[2]

\* C7: every route() call ends in a decision, never in an error, and the
\* decision has a category of AgentType, a method of the five and a
\* confidence in [0, 1].
DecisionWellFormed ==
    /\ result.outcome # "raised"
    /\ rpc = "done" =>
         /\ result.outcome = "returned"
         /\ result.agent \in AgentType
         /\ result.method \in Methods
         /\ result.confidence \in 0..10

DecisionWellFormedWitness ==
    /\ rpc = "done" /\ attempt = MaxAttempts /\ gen_result = Failed
    /\ result.outcome = "returned"

\* C8: the fallback classifier never raises; when the generation call
\* failed after its last attempt, or the reply is no known category name,
\* it returns None.
ClassifierNeverRaises ==
    /\ ~llm_outcome.raised
    /\ (llm_outcome # NotCalled /\ ~gen_result.ok) => llm_outcome.value = None
    /\ (llm_outcome # NotCalled /\ gen_result.ok
           /\ agent_name(gen_result.response) \notin KnownNames) =>
               llm_outcome.value = None

ClassifierNeverRaisesWitness ==
    /\ llm_outcome # NotCalled /\ gen_result = Failed /\ gen_calls = MaxAttempts
    /\ llm_outcome.value = None

\* C9: from a collection with no point of document d, index_document(d)
\* returning N followed by delete_document(d) reports N removed, leaves no
\* point of d and leaves the points of the other documents as they were.
OthersOf(st, doc_id) == {run \in st : Payload(run, run.lo).doc_id # doc_id}

RoundTrip ==
    [][(/\ last.op = "index" /\ ~last.raised /\ last.had = 0
        /\ last'.op = "delete" /\ ~last'.raised /\ last'.doc = last.doc
        /\ ops' = ops + 1)
         => /\ last'.ret = last.ret
            /\ Matching(store', last.doc) = {}
            /\ OthersOf(store', last.doc) = OthersOf(store, last.doc)]_vars

\* C10: after delete_document(d) returns, no point with document id d is
\* left and the count returned is the number of points d had, also when d
\* had more points than one page holds.
DeleteRemovesAll ==
    (last.op = "delete" /\ ~last.raised) =>
        /\ Matching(store, last.doc) = {}
        /\ last.ret = last.had

\* C11: a delete_document(d) that returns when the store has no point of d
\* (d never indexed, or d deleted by the call directly before) returns 0,
\* issues the scroll and no delete request, and leaves the store as it was.
DeleteOfAbsentReturnsZero ==
    [][(/\ last'.op = "delete" /\ ~last'.raised /\ ops' = ops + 1
        /\ \/ last'.had = 0
           \/ last.op = "delete" /\ ~last.raised /\ last.doc = last'.doc)
         => /\ last'.ret = 0
            /\ requests' = Once("scroll", TRUE)
            /\ store' = store]_vars

ChunkIndexBelowTotal ==
    \A run \in store : \A id \in {run.lo, run.hi} :
        LET payload == Payload(run, id)
        IN /\ payload.chunk_index < payload.total_chunks
           /\ payload.chunk_index = id - run.first
           /\ payload.total_chunks = run.total

\* C18 as stated: no embedding request and no vector-store request is
\* retried; a failed embed, upsert, search, scroll or delete request is the
\* last request of its call, and the call raises.
StoreRequests == {"upsert", "search", "scroll", "delete"}

EmptyIndexFlagged ==
    (/\ answer # NoAnswer /\ answer.outcome = "returned"
     /\ retrieved.outcome = "returned" /\ retrieved.results = <<>>)
        => /\ answer.citations = <<>>
           /\ answer.message.note = ContextNote

\* C14: when the retrieval fails (the embedding or the vector-store search
\* raises), _answer_question does not raise unless the generation call
\* itself fails on all its attempts: it makes a generation call with the
\* plain prompt, no context in it, and returns that reply with the note
\* "Answered without document context", no citation and a count of 0.
GenerationUnreachable ==
    /\ Len(requests) >= 3
    /\ \A i \in (Len(requests) - 2)..Len(requests) : requests[i] = <<"generate", FALSE>>

RetrievalFailureFallsBack ==
    retrieved.outcome = "raised" =>
        /\ query_ret.outcome = "raised"
        /\ IF GenerationUnreachable
           THEN answer.outcome = "raised"
           ELSE /\ answer.outcome = "returned"
                /\ ~answer.prompt.augmented /\ answer.prompt.context = <<>>
                /\ answer.message =
                       [response |-> Response, sources |-> <<>>, note |-> ContextNote]
                /\ answer.citations = <<>>
                /\ answer.count = 0
                /\ requests[Len(requests)] = <<"generate", TRUE>>

RetrievalFailureFallsBackWitness ==
    /\ retrieved.outcome = "raised"
    /\ requests = << <<"embed", TRUE>>, <<"search", FALSE>>, <<"generate", TRUE>> >>
    /\ answer.outcome = "returned" /\ answer.message.note = ContextNote

PreviewAtMost200 ==
    query_ret.outcome = "returned" =>
        \A i \in 1..Len(query_ret.citations) : Len(query_ret.citations[i].content) <= 200

\* C16, amended: the content of a citation is the chunk text itself when
\* that has at most 200 characters, and otherwise its first 200 characters
\* followed by "...", 203 characters in all.
PreviewCutAt200 ==
    query_ret.outcome = "returned" =>
        \A i \in 1..Len(query_ret.citations) :
            LET content == retrieved.documents[i].content
                shown == query_ret.citations[i].content
            IN /\ Len(shown) <= 203
               /\ IF Len(content) <= 200
                  THEN shown = content
                  ELSE /\ Len(shown) = 203
                       /\ SubSeq(shown, 1, 200) = SubSeq(content, 1, 200)
                       /\ SubSeq(shown, 201, 203) = <<".", ".", ".">>

PreviewCutAt200Witness ==
    /\ query_ret.outcome = "returned"
    /\ \E i \in 1..Len(query_ret.citations) :
          /\ Len(retrieved.documents[i].content) = 201
          /\ Len(query_ret.citations[i].content) = 203

\* C17: a generation call is attempted at most 3 times; once an attempt
\* has succeeded, or the call has re-raised, no further attempt is made;
\* the call re-raises only when 3 attempts have failed, and a third
\* attempt that fails ends the call with the error, never with a value.
GenerationBounded ==
    /\ [](gen_calls <= 3)
    /\ [](gen_result = Failed => gen_calls = 3)
    /\ [][gen_result # Pending => gen_calls' = gen_calls]_vars
    /\ [][(gen_calls' = gen_calls + 1 /\ ~gen_result'.ok) =>
             IF gen_calls' = 3 THEN gen_result' = Failed ELSE gen_result' = Pending]_vars

GenerationBoundedWitness ==
    /\ rpc = "done" /\ gen_calls = 3
    /\ gen_result.ok
    /\ result.method = "llm"

BackendOnlyWithoutSignal ==
    /\ (rpc = "generate" \/ gen_calls > 0) =>
           /\ force_agent = None
           /\ HitCategories(text) = {}
           /\ scores = <<>>
    /\ (rpc = "done" /\ (force_agent # None \/ HitCategories(text) # {})) =>
           /\ gen_calls = 0
           /\ llm_outcome = NotCalled
           /\ result.outcome = "returned"

BackendOnlyWithoutSignalWitness ==
    /\ rpc = "done" /\ gen_calls = 2
    /\ force_agent = None /\ scores = <<>> /\ Len(text) > 0
    /\ result.method = "llm"

\* C22 as stated: a reply that differs from a known category name only in
\* letter case, surrounding whitespace or punctuation is mapped to that
\* category.
Punctuation == {".", "!", ":", ",", ";", "?"}

RECURSIVE Bare(_)
Bare(s) ==
    IF Len(s) > 0 /\ s[1] \in Whitespace \cup Punctuation THEN Bare(Tail(s))
    ELSE IF Len(s) > 0 /\ s[Len(s)] \in Whitespace \cup Punctuation
    THEN Bare(SubSeq(s, 1, Len(s) - 1))
    ELSE lower(s)

Classified == rpc = "done" /\ llm_outcome # NotCalled /\ gen_result.ok

PunctuationStripped ==
    (Classified /\ Bare(gen_result.response) \in KnownNames) =>
        llm_outcome.value = agent_map_get(Bare(gen_result.response))

\* C22, amended: the classifier trims the reply, lowercases it and removes
\* its colons and spaces, no other punctuation: a reply that differs from a
\* known category name only in letter case, whitespace around it, colons
\* or spaces is mapped to that category, and a reply holding any other
\* punctuation mark ('File.', ' code! ') is mapped to no category, so that
\* route() answers chat by default.
ColonsAndSpacesStripped ==
    Classified =>
        LET NotRemoved(c) == c \notin {":", " "}
            name == SelectSeq(lower(strip(gen_result.response)), NotRemoved)
        IN /\ name \in KnownNames => llm_outcome.value = agent_map_get(name)
           /\ name \notin KnownNames => llm_outcome.value = None
           /\ (\E i \in 1..Len(gen_result.response) :
                  gen_result.response[i] \in Punctuation \ {":"}) =>
                 /\ llm_outcome.value = None
                 /\ result = Decision("chat", "default", 5)

ColonsAndSpacesStrippedWitness ==
    /\ Classified
    /\ gen_result.response = <<" ", "c", "o", "d", "e", "!", " ">>
    /\ llm_outcome.value = None
    /\ result.agent = "chat"

\* C23: once the container's shutdown has completed, no network client
\* constructed during the process lifetime is still open, whether its
\* service object belongs to the container or to a module-level accessor.
AllClientsClosedAfterShutdown ==
    phase = "down" => \A k \in ClientKeys : clients[k] # "open"

\* C24: on every chat path and for each of the eight categories, a message
\* that was answered was handled by the handler of its category, and the
\* agent named in the reply is the agent that handled it.
HandledByNamedAgent ==
    turn.outcome = "none" =>
        /\ turn.handler = turn.agent_type
        /\ turn.named = turn.handler

\* C27: the history of a session is a sequence of pairs: each user message
\* is directly followed by the assistant reply of the same turn, whatever
\* step of a turn failed.
Paired(messages) ==
    \A i \in 1..Len(messages) :
        IF messages[i].role = "user"
        THEN /\ i < Len(messages)
             /\ messages[i + 1].role = "assistant"
             /\ messages[i + 1].content = messages[i].content
        ELSE /\ i > 1
             /\ messages[i - 1].role = "user"

TurnsStoredAsPairs ==
    \A session_id \in Sessions : Paired(redis[session_id].messages)

\* C28: when two concurrent add_message calls for one session have both
\* completed, the stored conversation holds both messages.
InStore(t) ==
    \E i \in 1..Len(redis[tasks[t].session].messages) :
        redis[tasks[t].session].messages[i] = tasks[t].message

NoLostUpdate ==
    \A t1, t2 \in Tasks :
        (/\ t1 # t2
         /\ tasks[t1].pc = "done" /\ tasks[t2].pc = "done"
         /\ tasks[t1].session = tasks[t2].session)
        => InStore(t1) /\ InStore(t2)

\* C30: after any sequence of add_message and save_conversation calls the
\* stored conversation of a session holds at most redis_max_history
\* messages, and they are the messages appended last, in the order they
\* were appended.
LastAppended(session_id) ==
    LET n == appended[session_id]
        m == IF n > redis_max_history THEN redis_max_history ELSE n
    IN [i \in 1..m |-> Msg(n - m + i)]

HistoryKeepsNewest ==
    \A session_id \in Sessions :
        /\ Len(redis[session_id].messages) <= redis_max_history
        /\ redis[session_id].messages = LastAppended(session_id)

HistoryKeepsNewestWitness ==
    \E session_id \in Sessions :
        /\ appended[session_id] = redis_max_history + 2
        /\ Len(redis[session_id].messages) = redis_max_history
        /\ redis[session_id].messages[1] = Msg(3)
        /\ redis[session_id].messages[redis_max_history] = Msg(redis_max_history + 2)

\* C25: under any interleaving of the first requests on one pipeline, a
\* request has issued its upsert, search or scroll only after a check (and
\* creation) of the collection has completed successfully.
NoOperationBeforeCollectionEnsured ==
    \A r \in Requests :
        reqs[r].pc = "operating" => \E q \in Requests : reqs[q].ensured

\* C26: every point an index_document call wrote carries the doc_id the
\* call was passed, whatever its metadata argument, so the filter of
\* delete_document on that doc_id selects the points the call wrote.
WrittenBy(st, call) == {run \in st : run.first = call.first}

PointsCarryDocId ==
    (last.op = "index" /\ ~last.raised) =>
        \A run \in WrittenBy(store, last) :
            /\ \A id \in {run.lo, run.hi} : Payload(run, id).doc_id = last.doc
            /\ run \in Matching(store, last.doc)

\* C29: an index_document call that returns only adds points: as many as
\* the count it returns, under identifiers no point has or had, every
\* earlier point staying as it was; so the points of two calls for one
\* document id are both in the store, and a delete_document of that id
\* removes as many points as the index calls for that id wrote.
IndexedFor(st, doc_id) == SumSizes({run \in st : run.doc = doc_id})

IndexOnlyAddsPoints ==
    [][/\ (last'.op = "index" /\ ~last'.raised /\ ops' = ops + 1) =>
            /\ store \subseteq store'
            /\ SumSizes(store' \ store) = last'.ret
            /\ \A run \in store' \ store :
                /\ run.lo >= next_id
                /\ next_id' > run.hi
                /\ \A old \in store : run.lo > old.hi
       /\ (last'.op = "delete" /\ ~last'.raised /\ ops' = ops + 1) =>
            /\ last'.ret = IndexedFor(store, last'.doc)
            /\ IndexedFor(store', last'.doc) = 0]_vars

====
